---- MODULE Spec2Model ----
(***************************************************************************)
(* Model of the price-watch agent (src/src/promo-agent/app.py): the        *)
(* WATCHED_PRODUCTS dictionary guarded by watchlist_lock, the background   *)
(* scheduler thread running check_product_prices, send_slack_notification, *)
(* and the POST /watchlist handler add_to_watchlist.                       *)
(*                                                                         *)
(* Time is counted in iterations of the scheduler loop (one time.sleep(1)  *)
(* each).  One request handler is in flight at a time.  Variables whose    *)
(* name starts with h_ are history variables: they record what happened    *)
(* and are never read by the modelled code.                                *)
(***************************************************************************)
EXTENDS Integers, Sequences, FiniteSets, TLC

\* ---------------------------------------------------------------- bounds
MaxPrice == 1        \* prices are 0..MaxPrice
MaxEvents == 3       \* timer firings plus POST /watchlist requests

\* ------------------------------------------------------ program constants
Interval == 60       \* schedule.every(1).minutes, in time.sleep(1) periods
None == 0 - 1        \* Python None (no price recorded)
Absent == 0 - 2      \* history only: the key was not in the dict
EmptyId == ""
NewId == "NEWPRODUCT"
SeedIds == <<"OLJCESPC7Z", "66VCHSJNUP", "1YMWWN1N4O">>

Prices == 0..MaxPrice
Range(s) == {s[k] : k \in 1..Len(s)}
AllIds == Range(SeedIds) \cup {NewId, EmptyId}

\* ------------------------------------------------------- the dictionary
\* A Python dict: insertion-ordered entries [id, price].
SeedDict == [k \in 1..Len(SeedIds) |-> [id |-> SeedIds[k], price |-> None]]

Keys(d) == [k \in 1..Len(d) |-> d[k].id]

Has(d, id) == \E k \in 1..Len(d) : d[k].id = id

\* d.get(id): the price of the first entry for id, None when there is none
Get(d, id) ==
  IF Has(d, id)
  THEN d[CHOOSE k \in 1..Len(d) : d[k].id = id /\ \A j \in 1..(k-1) : d[j].id # id].price
  ELSE None

\* a dict rebuilt from the one assignment
PutReplace(d, id, v) == <<[id |-> id, price |-> v]>>

\* d[id] = v: overwrite in place when the key exists, append otherwise
Put(d, id, v) ==
  IF Has(d, id)
  THEN [k \in 1..Len(d) |-> IF d[k].id = id THEN [id |-> id, price |-> v] ELSE d[k]]
  ELSE Append(d, [id |-> id, price |-> v])

VARIABLES
  WATCHED_PRODUCTS,   \* the dict
  watchlist_lock,     \* "free", "poller" or "api"
  SLACK_WEBHOOK_URL,  \* TRUE when the webhook is configured
  pc,                 \* position of the scheduler thread
  elapsed,            \* sleeps since the job was (re)scheduled
  product_ids,        \* check_product_prices: the copied key list
  i,                  \* check_product_prices: index of the current product_id
  current_price,      \* check_product_prices: parsed price
  last_price,         \* check_product_prices: price read under the lock
  api_pc,             \* position of the request handler
  api_body,           \* body of the request being (or last) handled
  api_status,         \* status of the last response, 0 before any
  h_cycles,           \* poll cycles started
  h_requests,         \* requests received
  h_seen,             \* what the handler's membership test found
  h_track,            \* TRUE when h_lastObs is kept (SpecObs)
  h_lastObs,          \* per id: price of the last well-formed observation
  h_iter,             \* record of the current / last loop iteration
  h_queried,          \* ids looked up in the running cycle
  h_added,            \* ids answered 201
  h_lateAdds,         \* ids answered 201 after the running cycle's key snapshot
  h_posts             \* 1 once requests.post to the webhook was called

config == <<SLACK_WEBHOOK_URL, h_track>>
locals == <<product_ids, i, current_price, last_price>>
apiVars == <<api_pc, api_body, api_status, h_requests, h_seen, h_added>>
vars == <<WATCHED_PRODUCTS, watchlist_lock, config, pc, elapsed, locals, apiVars,
          h_cycles, h_lastObs, h_iter, h_queried, h_lateAdds, h_posts>>

NoIter == [id |-> EmptyId, kind |-> "none", price |-> None, prev |-> None,
           before |-> None, notified |-> 0, posts |-> 0, old |-> None, new |-> None,
           delivery |-> "none"]

InitAll ==
  /\ WATCHED_PRODUCTS = SeedDict
  /\ watchlist_lock = "free"
  /\ SLACK_WEBHOOK_URL \in BOOLEAN
  /\ pc = "idle"
  /\ elapsed = 0
  /\ product_ids = <<>>
  /\ i = 0
  /\ current_price = None
  /\ last_price = None
  /\ api_pc = "idle"
  /\ api_body = [kind |-> "none", product_id |-> EmptyId]
  /\ api_status = 0
  /\ h_cycles = 0
  /\ h_requests = 0
  /\ h_seen = Absent
  /\ h_lastObs = [id \in AllIds |-> None]
  /\ h_iter = NoIter
  /\ h_queried = {}
  /\ h_added = {}
  /\ h_lateAdds = {}
  /\ h_posts = 0

\* Spec keeps no observation history; SpecObs keeps h_lastObs as well
Init == InitAll /\ h_track = FALSE

InitObs == InitAll /\ h_track = TRUE

\* ------------------------------------------------------------- scheduler
\* schedule: a job is run by run_pending once its period has passed
JobDueAtOnce(e) == TRUE

JobDue(e) == e >= Interval

\* run_scheduler loop body with nothing due: run_pending(); time.sleep(1)
SchedulerSleep ==
  /\ pc = "idle"
  /\ ~JobDue(elapsed)
  /\ h_cycles + h_requests < MaxEvents
  /\ elapsed' = elapsed + 1
  /\ UNCHANGED <<WATCHED_PRODUCTS, watchlist_lock, config, pc, locals, apiVars,
                 h_cycles, h_lastObs, h_iter, h_queried, h_lateAdds, h_posts>>

\* run_pending() calls the job in the scheduler thread itself: the loop of
\* run_scheduler reaches run_pending() again only when the call has returned
InLoopAnywhere(p) == TRUE

InLoop(p) == p = "idle"

\* run_pending() finds the job due and calls check_product_prices
RunPending ==
  /\ InLoop(pc)
  /\ JobDue(elapsed)
  /\ h_cycles + h_requests < MaxEvents
  /\ pc' = "snapshot"
  /\ h_cycles' = h_cycles + 1
  /\ UNCHANGED <<WATCHED_PRODUCTS, watchlist_lock, config, elapsed, locals,
                 apiVars, h_lastObs, h_iter, h_queried, h_lateAdds, h_posts>>

\* ------------------------------------------------------ watchlist_lock
\* threading.Lock: `with watchlist_lock:` enters only when no thread holds it
CanAcquireAlways(lock) == TRUE

CanAcquire(lock) == lock = "free"

\* leaving the `with` block releases the lock
KeptLock(holder) == holder

ReleasedLock(holder) == "free"

\* ------------------------------------------------- check_product_prices
\* with watchlist_lock: (blocks until the lock is free)
AcquireForSnapshot ==
  /\ pc = "snapshot"
  /\ CanAcquire(watchlist_lock)
  /\ watchlist_lock' = "poller"
  /\ pc' = "copy_keys"
  /\ UNCHANGED <<WATCHED_PRODUCTS, config, elapsed, locals, apiVars,
                 h_cycles, h_lastObs, h_iter, h_queried, h_lateAdds, h_posts>>

\* product_ids = list(WATCHED_PRODUCTS.keys())
SnapshotKeysAll(d) == SeedIds \o <<NewId, EmptyId>>

SnapshotKeys(d) == Keys(d)

\* the copy under the lock, then the lock is released
CopyKeys ==
  /\ pc = "copy_keys"
  /\ product_ids' = SnapshotKeys(WATCHED_PRODUCTS)
  /\ i' = 1
  /\ watchlist_lock' = ReleasedLock("poller")
  /\ pc' = "for"
  /\ UNCHANGED <<WATCHED_PRODUCTS, config, elapsed, current_price, last_price,
                 apiVars, h_cycles, h_lastObs, h_iter, h_queried, h_lateAdds,
                 h_posts>>

\* for product_id in product_ids: the next id; requests.get(url) goes out
ForNext ==
  /\ pc = "for"
  /\ i <= Len(product_ids)
  /\ pc' = "fetching"
  /\ h_queried' = h_queried \cup {product_ids[i]}
  /\ h_iter' = [NoIter EXCEPT !.id = product_ids[i], !.kind = "pending",
                              !.prev = h_lastObs[product_ids[i]],
                              !.before = Get(WATCHED_PRODUCTS, product_ids[i])]
  /\ UNCHANGED <<WATCHED_PRODUCTS, watchlist_lock, config, elapsed, locals,
                 apiVars, h_cycles, h_lastObs, h_lateAdds, h_posts>>

\* the loop is exhausted: check_product_prices returns (its locals are gone),
\* schedule sets the job's next run one period from now
ForEnd ==
  /\ pc = "for"
  /\ i > Len(product_ids)
  /\ pc' = "idle"
  /\ elapsed' = 0
  /\ product_ids' = <<>>
  /\ i' = 0
  /\ h_iter' = NoIter
  /\ h_queried' = {}
  /\ h_lateAdds' = {}
  /\ UNCHANGED <<WATCHED_PRODUCTS, watchlist_lock, config, current_price,
                 last_price, apiVars, h_cycles, h_lastObs, h_posts>>

\* Outcomes of lines 60-65 for one lookup.
\*   transport   requests.get raises ConnectionError / Timeout
\*   http404     raise_for_status raises HTTPError (not found)
\*   http5xx     raise_for_status raises HTTPError (other error status)
\*   nonnumeric  units is a string that is no integer: int() raises ValueError
\*   null        units is JSON null: int(None) raises TypeError
\*   missing     priceUsd or units is absent: .get(..., '0') yields '0'
\*   ok          units is a string-encoded integer
Kinds == {"transport", "http404", "http5xx", "nonnumeric", "null", "missing", "ok"}

\* What the try / except of lines 58-88 does with each outcome:
\*   skip   except RequestException / except (KeyError, ValueError): print, go on
\*   raise  no except clause matches (TypeError): the exception leaves the loop
\*   parse  no exception: current_price is set and the locked block is entered
HandlingLenient(kind) ==
  IF kind \in {"transport", "http404", "http5xx"} THEN "skip"
  ELSE IF kind = "null" THEN "raise"
  ELSE "parse"

Handling(kind) ==
  IF kind \in {"transport", "http404", "http5xx", "nonnumeric"} THEN "skip"
  ELSE IF kind = "null" THEN "raise"
  ELSE "parse"

\* int(product_data.get('priceUsd', {}).get('units', '0'))
ParseUnits(kind, units) == IF kind = "ok" THEN units ELSE 0

\* the except clauses print the error and the loop goes on with the next id
LookupFails ==
  /\ pc = "fetching"
  /\ \E kind \in Kinds :
       /\ Handling(kind) = "skip"
       /\ h_iter' = [h_iter EXCEPT !.kind = kind]
  /\ pc' = "for"
  /\ i' = i + 1
  /\ UNCHANGED <<WATCHED_PRODUCTS, watchlist_lock, config, elapsed, product_ids,
                 current_price, last_price, apiVars, h_cycles, h_lastObs,
                 h_queried, h_lateAdds, h_posts>>

\* the exception leaves check_product_prices, run_pending and run_scheduler:
\* the scheduler thread ends
LookupRaises ==
  /\ pc = "fetching"
  /\ \E kind \in Kinds :
       /\ Handling(kind) = "raise"
       /\ h_iter' = [h_iter EXCEPT !.kind = kind]
  /\ pc' = "dead"
  /\ UNCHANGED <<WATCHED_PRODUCTS, watchlist_lock, config, elapsed, locals,
                 apiVars, h_cycles, h_lastObs, h_queried, h_lateAdds, h_posts>>

\* lines 62-66: the body is parsed into current_price
LookupParses ==
  /\ pc = "fetching"
  /\ \E kind \in Kinds, units \in Prices :
       /\ Handling(kind) = "parse"
       /\ kind # "ok" => units = 0
       /\ current_price' = ParseUnits(kind, units)
       /\ h_iter' = [h_iter EXCEPT !.kind = kind, !.price = ParseUnits(kind, units)]
  /\ pc' = "wait_lock"
  /\ UNCHANGED <<WATCHED_PRODUCTS, watchlist_lock, config, elapsed, product_ids,
                 i, last_price, apiVars, h_cycles, h_lastObs, h_queried,
                 h_lateAdds, h_posts>>

\* if last_price is not None and current_price < last_price
IsDrop(last, current) == last # None /\ current < last

\* if not SLACK_WEBHOOK_URL: return -- else requests.post is called
PostsAlways(url) == TRUE

Posts(url) == url

\* with watchlist_lock: last_price = WATCHED_PRODUCTS.get(product_id); on a
\* drop the message is built and send_slack_notification(message) is entered:
\* it returns at once without a webhook, else requests.post goes out
LockAndCompare ==
  /\ pc = "wait_lock"
  /\ CanAcquire(watchlist_lock)
  /\ watchlist_lock' = "poller"
  /\ last_price' = Get(WATCHED_PRODUCTS, product_ids[i])
  /\ IF IsDrop(Get(WATCHED_PRODUCTS, product_ids[i]), current_price)
     THEN /\ h_iter' = [h_iter EXCEPT !.notified = @ + 1,
                                      !.old = Get(WATCHED_PRODUCTS, product_ids[i]),
                                      !.new = current_price,
                                      !.delivery = IF Posts(SLACK_WEBHOOK_URL)
                                                   THEN "pending" ELSE "disabled",
                                      !.posts = IF Posts(SLACK_WEBHOOK_URL) THEN @ + 1 ELSE @]
          /\ pc' = IF Posts(SLACK_WEBHOOK_URL) THEN "posting" ELSE "write"
          /\ h_posts' = IF Posts(SLACK_WEBHOOK_URL) THEN 1 ELSE h_posts
     ELSE /\ pc' = "write"
          /\ UNCHANGED <<h_iter, h_posts>>
  /\ UNCHANGED <<WATCHED_PRODUCTS, config, elapsed, product_ids, i, current_price,
                 apiVars, h_cycles, h_lastObs, h_queried, h_lateAdds>>

\* lines 44-47: raise_for_status passes, or the RequestException is caught
\* and printed; either way send_slack_notification returns to line 83
AfterPostRaising(delivered) == IF delivered THEN "write" ELSE "dead"

AfterPost(delivered) == "write"

\* requests.post returns: delivered, or failed with a RequestException
PostReturns ==
  /\ pc = "posting"
  /\ \E delivered \in BOOLEAN :
       /\ pc' = AfterPost(delivered)
       /\ h_iter' = [h_iter EXCEPT !.delivery = IF delivered THEN "ok" ELSE "failed"]
  /\ UNCHANGED <<WATCHED_PRODUCTS, watchlist_lock, config, elapsed, locals,
                 apiVars, h_cycles, h_lastObs, h_queried, h_lateAdds, h_posts>>

\* WATCHED_PRODUCTS[product_id] = current_price, the lock is released.
\* current_price and last_price are assigned again before they are next read,
\* so the model forgets them here.
WriteBack ==
  /\ pc = "write"
  /\ WATCHED_PRODUCTS' = Put(WATCHED_PRODUCTS, product_ids[i], current_price)
  /\ watchlist_lock' = "free"
  /\ h_lastObs' = IF h_track /\ h_iter.kind = "ok"
                  THEN [h_lastObs EXCEPT ![product_ids[i]] = current_price]
                  ELSE h_lastObs
  /\ pc' = "for"
  /\ i' = i + 1
  /\ current_price' = None
  /\ last_price' = None
  /\ UNCHANGED <<config, elapsed, product_ids, apiVars, h_cycles, h_iter,
                 h_queried, h_lateAdds, h_posts>>

Poller ==
  \/ SchedulerSleep \/ RunPending \/ AcquireForSnapshot \/ CopyKeys
  \/ ForNext \/ ForEnd \/ LookupFails \/ LookupRaises \/ LookupParses
  \/ LockAndCompare \/ PostReturns \/ WriteBack

\* the loop body is at work on identifier id
InProgress(id) ==
  /\ pc \in {"fetching", "wait_lock", "posting", "write"}
  /\ product_ids[i] = id

\* a poll cycle has copied the keys and has not returned
AfterSnapshot == pc \in {"for", "fetching", "wait_lock", "posting", "write"}

\* ------------------------------------------------------ add_to_watchlist
\* Request bodies: no JSON body (or null), a JSON object without product_id
\* (among them {}), a JSON object with product_id.
RequestIds == {SeedIds[1], NewId, EmptyId}
Bodies ==
  {[kind |-> "absent", product_id |-> EmptyId],
   [kind |-> "no_field", product_id |-> EmptyId]}
  \cup {[kind |-> "json", product_id |-> id] : id \in RequestIds}

\* not (not data or 'product_id' not in data)
PassesValidation(body) == body.kind = "json"

\* lines 94-98: a request arrives and is validated; 400 ends it
Receive ==
  /\ api_pc = "idle"
  /\ h_cycles + h_requests < MaxEvents
  /\ \E body \in Bodies :
       /\ api_body' = body
       /\ IF PassesValidation(body)
          THEN api_pc' = "wait_lock" /\ api_status' = 0
          ELSE api_pc' = "idle" /\ api_status' = 400
  /\ h_requests' = h_requests + 1
  /\ h_seen' = Absent
  /\ UNCHANGED <<WATCHED_PRODUCTS, watchlist_lock, config, pc, elapsed, locals,
                 h_added, h_cycles, h_lastObs, h_iter, h_queried, h_lateAdds,
                 h_posts>>

\* with watchlist_lock: (blocks until the lock is free)
ApiAcquire ==
  /\ api_pc = "wait_lock"
  /\ CanAcquire(watchlist_lock)
  /\ watchlist_lock' = "api"
  /\ api_pc' = "locked"
  /\ UNCHANGED <<WATCHED_PRODUCTS, config, pc, elapsed, locals, api_body,
                 api_status, h_requests, h_seen, h_added, h_cycles, h_lastObs,
                 h_iter, h_queried, h_lateAdds, h_posts>>

\* if product_id not in WATCHED_PRODUCTS: WATCHED_PRODUCTS[product_id] = None
AddAlways(d, id) == Put(d, id, None)

Add(d, id) == IF Has(d, id) THEN d ELSE Put(d, id, None)

\* lines 100-105 under the lock: insert and 201, or 200; the lock is released
ApiInsert ==
  /\ api_pc = "locked"
  /\ h_seen' = IF Has(WATCHED_PRODUCTS, api_body.product_id)
               THEN Get(WATCHED_PRODUCTS, api_body.product_id) ELSE Absent
  /\ WATCHED_PRODUCTS' = Add(WATCHED_PRODUCTS, api_body.product_id)
  /\ api_status' = IF Has(WATCHED_PRODUCTS, api_body.product_id) THEN 200 ELSE 201
  /\ h_added' = IF Has(WATCHED_PRODUCTS, api_body.product_id)
                THEN h_added ELSE h_added \cup {api_body.product_id}
  /\ h_lateAdds' = IF Has(WATCHED_PRODUCTS, api_body.product_id) \/ ~AfterSnapshot
                   THEN h_lateAdds ELSE h_lateAdds \cup {api_body.product_id}
  /\ watchlist_lock' = "free"
  /\ api_pc' = "idle"
  /\ UNCHANGED <<config, pc, elapsed, locals, api_body, h_requests, h_cycles,
                 h_lastObs, h_iter, h_queried, h_posts>>

Api == Receive \/ ApiAcquire \/ ApiInsert

Next == Poller \/ Api

Spec == Init /\ [][Next]_vars

SpecObs == InitObs /\ [][Next]_vars

\* The two threads are scheduled by the interpreter: a step of the program
\* itself that stays possible is eventually taken.  Nothing obliges the catalog
\* facade or the webhook to answer: requests.get (line 60) and requests.post
\* (line 43) are called without a timeout, so LookupFails, LookupRaises,
\* LookupParses and PostReturns carry no fairness.
ProgramSteps ==
  \/ AcquireForSnapshot
  \/ CopyKeys
  \/ ForNext
  \/ ForEnd
  \/ LockAndCompare
  \/ WriteBack
  \/ ApiAcquire
  \/ ApiInsert

SpecFair == Init /\ [][Next]_vars /\ WF_vars(ProgramSteps)

\* ================================================================ claims
\* the last loop iteration has ended and no new one has begun
IterDone == pc \in {"for", "dead"} /\ h_iter.kind \notin {"none", "pending"}

\* the running cycle has ended: the loop is exhausted, or an exception left it
CycleOver == (pc = "for" /\ i > Len(product_ids)) \/ pc = "dead"

\* C1: the Notifier is invoked for an observation if and only if the
\* observation succeeded (a string-encoded integer price) and its price is
\* strictly below the price of the preceding successful observation of the
\* same id; then exactly once, naming that old price and the new one.
NotifyIffDrop ==
  IterDone =>
    LET drop == /\ h_iter.kind = "ok"
                /\ h_iter.prev # None
                /\ h_iter.price < h_iter.prev
    IN /\ h_iter.notified = (IF drop THEN 1 ELSE 0)
       /\ drop => (h_iter.old = h_iter.prev /\ h_iter.new = h_iter.price)

\* C2: after an iteration whose lookup failed (transport error, 404 or other
\* error status, unparsable price) the stored price of the id is what it was
\* before the iteration, and the Notifier was not invoked.
FailedLookupKeepsPrice ==
  (IterDone /\ h_iter.kind \in {"transport", "http404", "http5xx", "nonnumeric", "null"})
    => /\ Get(WATCHED_PRODUCTS, h_iter.id) = h_iter.before
       /\ h_iter.notified = 0
       /\ h_iter.posts = 0

FailedLookupKeepsPriceWitness ==
  /\ IterDone
  /\ h_iter.kind \in {"transport", "http404", "http5xx", "nonnumeric"}
  /\ h_iter.before \in Prices
  /\ h_iter.before > 0

\* C3: when a cycle has ended, every id of its snapshot has been looked up,
\* whatever the outcomes of the other lookups.
AllSnapshotLookedUp ==
  CycleOver => \A k \in 1..Len(product_ids) : product_ids[k] \in h_queried

\* C4: an add of an absent id inserts it with unset price and answers 201;
\* an add of an id already in the dict answers 200 and leaves the dict as it
\* is (a recorded price is not reset); the dict never holds two entries for
\* one id.
UniqueKeys ==
  \A j, k \in 1..Len(WATCHED_PRODUCTS) :
    WATCHED_PRODUCTS[j].id = WATCHED_PRODUCTS[k].id => j = k

AddIsIdempotent ==
  /\ []UniqueKeys
  /\ [][(api_pc = "locked" /\ api_pc' = "idle") =>
          IF Has(WATCHED_PRODUCTS, api_body.product_id)
          THEN /\ api_status' = 200
               /\ WATCHED_PRODUCTS' = WATCHED_PRODUCTS
          ELSE /\ api_status' = 201
               /\ WATCHED_PRODUCTS' =
                    Append(WATCHED_PRODUCTS, [id |-> api_body.product_id, price |-> None])
       ]_vars

\* the second add of NewId was answered 200 after the Poller recorded its price
AddIsIdempotentWitness ==
  /\ api_pc = "idle"
  /\ api_status = 200
  /\ api_body.product_id = NewId
  /\ h_seen \in Prices
  /\ Get(WATCHED_PRODUCTS, NewId) = h_seen

\* C5: a request without body, without product_id or with an empty
\* product_id is answered 400 and goes no further: only a request with a
\* non-empty product_id reaches the locked block, and no empty key is inserted.
AddValidatesNonEmpty ==
  /\ (api_body.kind # "none" /\ ~(api_body.kind = "json" /\ api_body.product_id # EmptyId))
       => (api_pc = "idle" /\ api_status = 400)
  /\ ~Has(WATCHED_PRODUCTS, EmptyId)

\* C6: after an iteration whose response had no price field, or a price that
\* is no string-encoded integer, the stored price of the id is what it was
\* before the iteration and the Notifier was not invoked.
MalformedPriceSkipped ==
  (IterDone /\ h_iter.kind \in {"missing", "nonnumeric", "null"})
    => /\ Get(WATCHED_PRODUCTS, h_iter.id) = h_iter.before
       /\ h_iter.notified = 0

\* C7 as stated: the first poll cycle begins before a full poll interval has
\* elapsed since the scheduler thread started.
FirstCycleAtStartup ==
  (h_cycles = 1 /\ pc # "idle") => elapsed < Interval

\* C7 amended: no cycle runs at startup; a cycle begins only on a tick of the
\* period, the first one a full poll interval after the thread started.
CycleOnlyAfterFullInterval ==
  /\ pc # "idle" => elapsed >= Interval
  /\ (h_cycles = 0 /\ elapsed < Interval) => pc = "idle"

CycleOnlyAfterFullIntervalWitness ==
  /\ h_cycles = 1
  /\ pc = "snapshot"
  /\ elapsed = Interval

\* C8: a cycle looks up exactly the ids of its key snapshot: nothing outside
\* it, an id added after the snapshot is neither looked up nor given a price
\* in that cycle, and when the cycle has ended all of the snapshot was
\* looked up.
CycleQueriesExactlySnapshot ==
  /\ h_queried \subseteq Range(product_ids)
  /\ \A id \in h_lateAdds :
       /\ id \notin Range(product_ids)
       /\ id \notin h_queried
       /\ Get(WATCHED_PRODUCTS, id) = None
  /\ CycleOver => h_queried = Range(product_ids)

\* C9: every key of the dict is a seed id or the id of an add answered 201.
KeysWereAdded ==
  Range(Keys(WATCHED_PRODUCTS)) \subseteq Range(SeedIds) \cup h_added

\* the Poller has written a price under a key that an add created
KeysWereAddedWitness ==
  /\ Get(WATCHED_PRODUCTS, NewId) \in Prices
  /\ NewId \in h_added
  /\ pc = "for"

\* C10: without a webhook no requests.post is ever made, and an iteration
\* that detected a drop still ends with the new price stored.
NoWebhookNoCall ==
  ~SLACK_WEBHOOK_URL =>
    /\ h_posts = 0
    /\ pc # "posting"
    /\ (IterDone /\ h_iter.notified = 1) =>
          (h_iter.posts = 0 /\ Get(WATCHED_PRODUCTS, h_iter.id) = h_iter.new)

NoWebhookNoCallWitness ==
  /\ ~SLACK_WEBHOOK_URL
  /\ IterDone
  /\ h_iter.notified = 1
  /\ h_iter.kind = "ok"

\* C11: no thread holds watchlist_lock while an outbound call, to the catalog
\* facade (requests.get) or to the notification channel (requests.post), is in
\* progress.
LockNeverHeldAcrossCall ==
  pc \in {"fetching", "posting"} => watchlist_lock # "poller"

\* C12: while a catalog lookup of the poller is outstanding the poller does not
\* hold the lock, and a POST /watchlist request that is being handled gets its
\* response unless the lookup ends first; nothing is assumed about the lookup
\* ever returning.
LookupNeverBlocksApi ==
  /\ [](pc = "fetching" => watchlist_lock # "poller")
  /\ (pc = "fetching" /\ api_pc # "idle") ~> (api_pc = "idle" \/ pc # "fetching")

LookupNeverBlocksApiWitness ==
  /\ pc = "fetching"
  /\ api_pc = "locked"
  /\ watchlist_lock = "api"

\* C15: every catalog lookup ends, by an answer or by its timeout, and so every
\* poll cycle that starts comes back to the idle scheduler loop.
EveryCycleCompletes ==
  /\ (pc = "fetching") ~> (pc # "fetching")
  /\ (pc = "snapshot") ~> (pc = "idle")

\* C13: every read and write of the dict happens with watchlist_lock held by
\* the thread that makes it: the poller is inside a `with` block exactly when
\* the lock is the poller's, the handler exactly when it is the handler's, so
\* the two are never inside together; the key snapshot, the read of the
\* previous price, the membership test and each write are steps of the holder.
StoreAccessUnderLock ==
  /\ [](/\ pc \in {"copy_keys", "posting", "write"} <=> watchlist_lock = "poller"
        /\ api_pc = "locked" <=> watchlist_lock = "api"
        /\ ~(pc \in {"copy_keys", "posting", "write"} /\ api_pc = "locked"))
  /\ [][/\ product_ids' # product_ids /\ product_ids = <<>>
            => watchlist_lock = "poller" /\ pc = "copy_keys"
        /\ last_price' # last_price /\ last_price = None
            => watchlist_lock' = "poller" /\ pc' \in {"posting", "write"}
        /\ h_seen' # h_seen /\ api_pc = "locked"
            => watchlist_lock = "api"
        /\ WATCHED_PRODUCTS' # WATCHED_PRODUCTS
            => \/ watchlist_lock = "poller" /\ pc = "write" /\ api_pc # "locked"
               \/ watchlist_lock = "api" /\ api_pc = "locked"
                    /\ pc \notin {"copy_keys", "posting", "write"}]_vars

StoreAccessUnderLockWitness ==
  /\ pc = "wait_lock"
  /\ api_pc = "locked"
  /\ watchlist_lock = "api"
  /\ api_body.product_id = product_ids[i]

\* C14: no failed lookup, whatever its kind, stops the poller: the scheduler
\* thread is always either in its loop or inside a cycle that goes on.
PollerNeverStops ==
  /\ pc # "dead"
  /\ (IterDone /\ h_iter.kind # "ok") => pc = "for"

\* C16: once a drop was detected the new price is stored and the loop goes on
\* to the next identifier, whether the notification was delivered, failed or
\* was disabled.
DropAlwaysWritten ==
  (IterDone /\ h_iter.notified = 1)
    => /\ h_iter.delivery \in {"ok", "failed", "disabled"}
       /\ Get(WATCHED_PRODUCTS, h_iter.id) = h_iter.new
       /\ pc = "for"
       /\ i > 1
       /\ product_ids[i - 1] = h_iter.id

DropAlwaysWrittenWitness ==
  /\ IterDone
  /\ h_iter.notified = 1
  /\ h_iter.delivery = "failed"
  /\ Get(WATCHED_PRODUCTS, h_iter.id) = 0
  /\ h_iter.old = 1

\* C17: whenever no iteration for an identifier is in progress, its stored
\* price is the price of its most recent successful observation, and is unset
\* exactly when it has never been successfully observed.
StoredIsLastObserved ==
  \A id \in AllIds :
    (Has(WATCHED_PRODUCTS, id) /\ ~InProgress(id))
      => Get(WATCHED_PRODUCTS, id) = h_lastObs[id]

\* C18: a poll cycle starts only from the idle scheduler loop, when the one
\* before it has returned; while a cycle runs, and the job stays due all the
\* while, no second cycle starts.
OneCycleAtATime ==
  [][h_cycles' # h_cycles
       => /\ pc = "idle"
          /\ product_ids = <<>>
          /\ watchlist_lock # "poller"
          /\ h_cycles' = h_cycles + 1]_vars

OneCycleAtATimeWitness ==
  /\ h_cycles = 2
  /\ pc = "fetching"
  /\ JobDue(elapsed)

\* C19: a step of the request handler, wherever it falls between the steps of
\* the poller, changes nothing the poller reads or has computed for an
\* identifier already in the dict: its stored price, its place in the dict,
\* the poller's position and locals, and the notifications made stay as they
\* are, so the cycle runs on as if no add had been made.
AddsLeaveExistingAlone ==
  [][(api_pc' # api_pc \/ h_requests' # h_requests)
       => /\ \A k \in 1..Len(WATCHED_PRODUCTS) :
               /\ k <= Len(WATCHED_PRODUCTS')
               /\ WATCHED_PRODUCTS'[k] = WATCHED_PRODUCTS[k]
          /\ \A id \in AllIds :
               Has(WATCHED_PRODUCTS, id)
                 => Get(WATCHED_PRODUCTS', id) = Get(WATCHED_PRODUCTS, id)
          /\ UNCHANGED <<pc, locals, h_iter, h_posts, h_queried>>]_vars

AddsLeaveExistingAloneWitness ==
  /\ pc = "wait_lock"
  /\ api_pc = "idle"
  /\ api_status = 200
  /\ api_body.product_id = product_ids[i]
  /\ Get(WATCHED_PRODUCTS, product_ids[i]) = 1
  /\ current_price = 0

\* C20: an identifier once in the dict stays in it, and a stored price once
\* set to an integer is never unset again.
StoreOnlyGrows ==
  [][WATCHED_PRODUCTS' # WATCHED_PRODUCTS
       => \A id \in AllIds :
            /\ Has(WATCHED_PRODUCTS, id) => Has(WATCHED_PRODUCTS', id)
            /\ (Has(WATCHED_PRODUCTS, id) /\ Get(WATCHED_PRODUCTS, id) # None)
                 => Get(WATCHED_PRODUCTS', id) # None]_vars

StoreOnlyGrowsWitness ==
  /\ Has(WATCHED_PRODUCTS, NewId)
  /\ Get(WATCHED_PRODUCTS, SeedIds[1]) = 0
  /\ h_iter.id = SeedIds[1]
  /\ h_iter.old = 1
  /\ IterDone
====
